---- MODULE Spec2Model ----
(***************************************************************************)
(* Model of the WebRTC DataChannel lifecycle and concurrency engine        *)
(* (src/src/data/data_channel/mod.rs).                                     *)
(*                                                                         *)
(* One channel object is shared by concurrently running tasks: two tasks   *)
(* calling open(), one task per application operation (close, send /       *)
(* send_text, on_open, set_buffered_amount_low_threshold, ...) and the     *)
(* read loop spawned by handle_open.  Every await point of the source that *)
(* separates two accesses to shared state separates two actions here.      *)
(***************************************************************************)
EXTENDS Naturals, Sequences, FiniteSets

(* ------------------------------ bounds -------------------------------- *)
\* on-open and low-watermark callbacks the application registers (numbered 1..)
MaxCallbacks == 1
\* registrations the application makes on each of the on-close, on-message and
\* on-error slots (the callbacks are numbered 1.. in the order registered)
MaxRegistrations == 2
\* successful reads the stream hands to the read loop
MaxMsgs == 2
\* largest payload length passed to send / send_text
MaxLen == 1
\* largest value passed to set_buffered_amount_low_threshold
MaxThreshold == 1
\* cap on the history counters of dialed streams and spawned read loops
MaxDials == 2
\* largest max_packet_lifetime / max_retransmits a channel is built with
MaxCap == 2

\* tasks that call open() concurrently (e.g. renegotiation paths)
Openers == {"o1", "o2"}
\* identifiers the channel may be constructed with (0: unassigned)
InitialIds == {0, 7}
\* identifier handed out by generate_and_set_data_channel_id
GeneratedId == 2

NoHandler == 0
Callbacks == 1..MaxCallbacks

VARIABLES
    \* ---- struct DataChannel
    id,                            \* AtomicU16
    ready_state,                   \* Arc<AtomicU8>, a DataChannelState
    buffered_amount_low_threshold, \* AtomicUsize (the pre-open cache)
    detach_called,                 \* AtomicBool
    on_message_handler,            \* Mutex<Option<..>>: NoHandler or a callback
    on_open_handler,
    on_close_handler,
    on_error_handler,
    on_buffered_amount_low,
    sctp_transport,                \* Mutex<Option<Arc<SCTPTransport>>>: is it Some
    data_channel,                  \* Mutex<Option<Arc<..DataChannel>>>: is it Some
    detach_data_channels,          \* setting_engine.detach.data_channels
    \* ---- the dialed stream (data::data_channel::DataChannel)
    dc,
    \* ---- tasks
    open_pc, open_call,            \* per opener: position, and the last call
    loop_pc, loop_err,             \* the spawned read loop
    close_pc,
    send_pc, send_call,
    reg_pc, reg_f,                 \* the task calling on_open(f)
    set_pc, set_th,                \* the task calling set_buffered_amount_low_threshold
    detach_call,                   \* last detach() call; in_on_open: made while
                                   \* handle_open's on-open callback runs
    th_call,                       \* last buffered_amount_low_threshold() call
    \* ---- history
    dials,                         \* streams dialed so far
    loops,                         \* read loops spawned so far
    events,                        \* deliveries made by the read loop, in order:
                                   \* <<kind, callback called, number of the read>>
    msgs_read,                     \* successful reads so far
    open_cb,                       \* per on-open callback: how it was handled
    low_cb,                        \* last callback passed to on_buffered_amount_low
    low_connecting,                \* last one passed while the state was Connecting
    th_before_open,                \* threshold settled before open() began, if any
    id_requests,                   \* identifiers requested from the session so far
    last_reg,                      \* per read-loop slot: the last callback registered
    \* ---- immutable channel parameters and the Config handed to dial
    ordered,
    max_packet_lifetime,
    max_retransmits,
    dial_cfg

chan_vars == <<id, ready_state, buffered_amount_low_threshold, detach_called,
               on_message_handler, on_open_handler, on_close_handler,
               on_error_handler, on_buffered_amount_low, sctp_transport,
               data_channel, detach_data_channels, dc>>
open_vars == <<open_pc, open_call>>
loop_vars == <<loop_pc, loop_err, events, msgs_read>>
app_vars  == <<close_pc, send_pc, send_call, reg_pc, reg_f, set_pc, set_th,
               detach_call, th_call>>
hist_vars == <<dials, loops, open_cb, low_cb, low_connecting, th_before_open>>
param_vars == <<ordered, max_packet_lifetime, max_retransmits>>
vars == <<chan_vars, open_vars, loop_vars, app_vars, hist_vars,
          id_requests, last_reg, param_vars, dial_cfg>>

\* DataChannel::new, lines 82-102, but for the reliability parameters; the
\* remaining fields take Default
InitChannel ==
    /\ id \in InitialIds
    /\ ready_state = "Connecting"
    /\ buffered_amount_low_threshold = 0
    /\ detach_called = FALSE
    /\ on_message_handler = NoHandler
    /\ on_open_handler = NoHandler
    /\ on_close_handler = NoHandler
    /\ on_error_handler = NoHandler
    /\ on_buffered_amount_low = NoHandler
    /\ sctp_transport = FALSE
    /\ data_channel = FALSE
    /\ detach_data_channels \in BOOLEAN
    /\ dc = [threshold |-> 0, on_low |-> NoHandler, closed |-> FALSE]
    /\ open_pc = [t \in Openers |-> "idle"]
    /\ open_call = [t \in Openers |-> [assoc |-> FALSE, was_set |-> FALSE, result |-> "none"]]
    /\ loop_pc = "none"
    /\ loop_err = "none"
    /\ close_pc = "idle"
    /\ send_pc = "idle"
    /\ send_call = [seen |-> "none", in_on_open |-> FALSE, text |-> FALSE,
                     len |-> 0, wrote |-> FALSE,
                     at_write |-> "none", result |-> "none", n |-> 0]
    /\ reg_pc = "idle"
    /\ reg_f = NoHandler
    /\ set_pc = "idle"
    /\ set_th = 0
    /\ detach_call = [seen |-> "none", in_on_open |-> FALSE, result |-> "none"]
    /\ th_call = [from |-> "none", result |-> 0]
    /\ dials = 0
    /\ loops = 0
    /\ events = <<>>
    /\ msgs_read = 0
    /\ open_cb = [f \in Callbacks |-> [seen |-> "none", on_open_calls |-> 0, handle_open_calls |-> 0]]
    /\ low_cb = NoHandler
    /\ low_connecting = NoHandler
    /\ th_before_open = [status |-> "none", value |-> 0]
    /\ id_requests = 0
    /\ last_reg = [close |-> NoHandler, message |-> NoHandler, error |-> NoHandler]
    /\ dial_cfg = [channel_type |-> "none", reliability_parameter |-> 0]

\* lines 94-96: a fully reliable, ordered channel
Init ==
    /\ InitChannel
    /\ ordered = TRUE
    /\ max_packet_lifetime = 0
    /\ max_retransmits = 0

\* lines 94-96: any combination of the three reliability parameters
InitReliability ==
    /\ InitChannel
    /\ ordered \in BOOLEAN
    /\ max_packet_lifetime \in 0..MaxCap
    /\ max_retransmits \in 0..MaxCap

(* ------------------------------ open() -------------------------------- *)
\* faulty variant: the guard lets every call through
st_is_none_always(st) == TRUE

\* line 109: `if st.is_none()`
st_is_none(st) == st = FALSE

\* faulty variant: every session passes for one with an association
has_association_always(assoc) == TRUE

\* line 106: `if let Some(association) = sctp_transport.association().await`
has_association(assoc) == assoc

\* lines 105-114 and 178-180: association lookup, then the guarded store of
\* the transport reference
open_begin(t) ==
    /\ open_pc[t] = "idle"
    /\ \E assoc \in BOOLEAN :
         IF ~has_association(assoc) THEN
            /\ open_call' = [open_call EXCEPT ![t] =
                  [assoc |-> FALSE, was_set |-> sctp_transport,
                   result |-> "ErrSCTPNotEstablished"]]
            /\ UNCHANGED <<open_pc, sctp_transport, th_before_open>>
         ELSE IF st_is_none(sctp_transport) THEN
            /\ sctp_transport' = TRUE
            /\ open_pc' = [open_pc EXCEPT ![t] = "generate_id"]
            /\ open_call' = [open_call EXCEPT ![t] =
                  [assoc |-> assoc, was_set |-> sctp_transport, result |-> "pending"]]
            /\ th_before_open' =
                  IF th_before_open.status = "none" /\ set_pc = "idle"
                  THEN [status |-> "settled", value |-> buffered_amount_low_threshold]
                  ELSE [status |-> "racing", value |-> 0]
         ELSE
            /\ open_call' = [open_call EXCEPT ![t] =
                  [assoc |-> assoc, was_set |-> sctp_transport, result |-> "Ok"]]
            /\ UNCHANGED <<open_pc, sctp_transport, th_before_open>>
    /\ UNCHANGED <<id, ready_state, buffered_amount_low_threshold, detach_called,
                   on_message_handler, on_open_handler, on_close_handler,
                   on_error_handler, on_buffered_amount_low, data_channel,
                   detach_data_channels, dc>>
    /\ UNCHANGED <<loop_vars, app_vars, dials, loops, open_cb, low_cb, low_connecting>>
    /\ UNCHANGED <<id_requests, last_reg, param_vars, dial_cfg>>

\* faulty variant: an identifier is requested whatever the channel holds
id_unassigned_always(v) == TRUE

\* line 151: `if self.id.load(Ordering::SeqCst) == 0`
id_unassigned(v) == v = 0

\* lines 151-160: lazy identifier allocation; `?` returns the session's error
open_generate_id(t) ==
    /\ open_pc[t] = "generate_id"
    /\ id_requests' = IF id_unassigned(id) /\ id_requests < MaxDials
                      THEN id_requests + 1 ELSE id_requests
    /\ IF id_unassigned(id) THEN
          \E ok \in BOOLEAN :
             IF ok THEN
                /\ id' = GeneratedId
                /\ open_pc' = [open_pc EXCEPT ![t] = "dial"]
                /\ UNCHANGED open_call
             ELSE
                /\ open_pc' = [open_pc EXCEPT ![t] = "idle"]
                /\ open_call' = [open_call EXCEPT ![t].result = "ErrGenerateId"]
                /\ UNCHANGED id
       ELSE
          /\ open_pc' = [open_pc EXCEPT ![t] = "dial"]
          /\ UNCHANGED <<id, open_call>>
    /\ UNCHANGED <<ready_state, buffered_amount_low_threshold, detach_called,
                   on_message_handler, on_open_handler, on_close_handler,
                   on_error_handler, on_buffered_amount_low, sctp_transport,
                   data_channel, detach_data_channels, dc>>
    /\ UNCHANGED <<loop_vars, app_vars, hist_vars>>
    /\ UNCHANGED <<last_reg, param_vars, dial_cfg>>

\* faulty variant: the lifetime cap is tested before the retransmit cap
channel_type_lifetime_first(ord, lifetime, rexmit) ==
    IF lifetime = 0 /\ rexmit = 0
    THEN IF ord THEN "Reliable" ELSE "ReliableUnordered"
    ELSE IF lifetime # 0
    THEN IF ord THEN "PartialReliableTimed" ELSE "PartialReliableTimedUnordered"
    ELSE IF ord THEN "PartialReliableRexmit" ELSE "PartialReliableRexmitUnordered"

\* lines 119-140: the ChannelType chosen for the three parameters
channel_type(ord, lifetime, rexmit) ==
    IF lifetime = 0 /\ rexmit = 0
    THEN IF ord THEN "Reliable" ELSE "ReliableUnordered"
    ELSE IF rexmit # 0
    THEN IF ord THEN "PartialReliableRexmit" ELSE "PartialReliableRexmitUnordered"
    ELSE IF ord THEN "PartialReliableTimed" ELSE "PartialReliableTimedUnordered"

\* lines 120, 127 and 134: the reliability parameter (u16 widened to u32)
reliability_parameter(lifetime, rexmit) ==
    IF lifetime = 0 /\ rexmit = 0 THEN 0
    ELSE IF rexmit # 0 THEN rexmit
    ELSE lifetime

\* lines 142-149: the Config built for the dial
dial_config ==
    [channel_type |-> channel_type(ordered, max_packet_lifetime, max_retransmits),
     reliability_parameter |-> reliability_parameter(max_packet_lifetime, max_retransmits)]

\* line 162: dial a new stream on the association; `?` returns the dial error
open_dial(t) ==
    /\ open_pc[t] = "dial"
    /\ dials < MaxDials
    /\ dial_cfg' = dial_config
    /\ \E ok \in BOOLEAN :
         IF ok THEN
            /\ dials' = dials + 1
            /\ dc' = [threshold |-> 0, on_low |-> NoHandler, closed |-> FALSE]
            /\ open_pc' = [open_pc EXCEPT ![t] = "apply_threshold"]
            /\ UNCHANGED open_call
         ELSE
            /\ open_pc' = [open_pc EXCEPT ![t] = "idle"]
            /\ open_call' = [open_call EXCEPT ![t].result = "ErrDial"]
            /\ UNCHANGED <<dials, dc>>
    /\ UNCHANGED <<id, ready_state, buffered_amount_low_threshold, detach_called,
                   on_message_handler, on_open_handler, on_close_handler,
                   on_error_handler, on_buffered_amount_low, sctp_transport,
                   data_channel, detach_data_channels>>
    /\ UNCHANGED <<loop_vars, app_vars, loops, open_cb, low_cb, low_connecting, th_before_open>>
    /\ UNCHANGED <<id_requests, last_reg, param_vars>>

\* faulty variant: the cache is not replayed, the stream keeps its own value
stream_threshold == dc.threshold

\* line 166: the value handed to the new stream
cached_threshold == buffered_amount_low_threshold

\* lines 164-167: replay the cached threshold onto the new stream
open_apply_threshold(t) ==
    /\ open_pc[t] = "apply_threshold"
    /\ dc' = [dc EXCEPT !.threshold = cached_threshold]
    /\ open_pc' = [open_pc EXCEPT ![t] = "apply_on_low"]
    /\ UNCHANGED <<id, ready_state, buffered_amount_low_threshold, detach_called,
                   on_message_handler, on_open_handler, on_close_handler,
                   on_error_handler, on_buffered_amount_low, sctp_transport,
                   data_channel, detach_data_channels>>
    /\ UNCHANGED <<open_call, loop_vars, app_vars, hist_vars>>
    /\ UNCHANGED <<id_requests, last_reg, param_vars, dial_cfg>>

\* lines 168-173: take the stored low-watermark callback, if any, and install it
open_apply_on_low(t) ==
    /\ open_pc[t] = "apply_on_low"
    /\ IF on_buffered_amount_low # NoHandler
       THEN /\ dc' = [dc EXCEPT !.on_low = on_buffered_amount_low]
            /\ on_buffered_amount_low' = NoHandler
       ELSE UNCHANGED <<dc, on_buffered_amount_low>>
    /\ open_pc' = [open_pc EXCEPT ![t] = "store"]
    /\ UNCHANGED <<id, ready_state, buffered_amount_low_threshold, detach_called,
                   on_message_handler, on_open_handler, on_close_handler,
                   on_error_handler, sctp_transport, data_channel,
                   detach_data_channels>>
    /\ UNCHANGED <<open_call, loop_vars, app_vars, hist_vars>>
    /\ UNCHANGED <<id_requests, last_reg, param_vars, dial_cfg>>

(* --------------------------- handle_open() ---------------------------- *)
\* faulty variant: the stream reference is not stored before the state
handle_open_store_skipped(t) ==
    /\ open_pc[t] = "store"
    /\ open_pc' = [open_pc EXCEPT ![t] = "set_state"]
    /\ UNCHANGED <<chan_vars, open_call, loop_vars, app_vars, hist_vars>>
    /\ UNCHANGED <<id_requests, last_reg, param_vars, dial_cfg>>

\* lines 230-233: store the stream reference
handle_open_store(t) ==
    /\ open_pc[t] = "store"
    /\ data_channel' = TRUE
    /\ open_pc' = [open_pc EXCEPT ![t] = "set_state"]
    /\ UNCHANGED <<id, ready_state, buffered_amount_low_threshold, detach_called,
                   on_message_handler, on_open_handler, on_close_handler,
                   on_error_handler, on_buffered_amount_low, sctp_transport,
                   detach_data_channels, dc>>
    /\ UNCHANGED <<open_call, loop_vars, app_vars, hist_vars>>
    /\ UNCHANGED <<id_requests, last_reg, param_vars, dial_cfg>>

\* line 234: set_ready_state(Open), an unconditional store (lines 531-533)
handle_open_set_state(t) ==
    /\ open_pc[t] = "set_state"
    /\ ready_state' = "Open"
    /\ open_pc' = [open_pc EXCEPT ![t] = "take"]
    /\ UNCHANGED <<id, buffered_amount_low_threshold, detach_called,
                   on_message_handler, on_open_handler, on_close_handler,
                   on_error_handler, on_buffered_amount_low, sctp_transport,
                   data_channel, detach_data_channels, dc>>
    /\ UNCHANGED <<open_call, loop_vars, app_vars, hist_vars>>
    /\ UNCHANGED <<id_requests, last_reg, param_vars, dial_cfg>>

\* the on_open_handler mutex is held from handler.take() until f() returns
\* (lines 237-241)
on_open_locked == \E t \in Openers : open_pc[t] = "callback"

\* lines 236-239: lock the slot, take the callback and call it
handle_open_take(t) ==
    /\ open_pc[t] = "take"
    /\ ~on_open_locked
    /\ IF on_open_handler # NoHandler
       THEN /\ open_cb' = [open_cb EXCEPT ![on_open_handler].handle_open_calls = @ + 1]
            /\ on_open_handler' = NoHandler
            /\ open_pc' = [open_pc EXCEPT ![t] = "callback"]
       ELSE /\ open_pc' = [open_pc EXCEPT ![t] = "spawn"]
            /\ UNCHANGED <<open_cb, on_open_handler>>
    /\ UNCHANGED <<id, ready_state, buffered_amount_low_threshold, detach_called,
                   on_message_handler, on_close_handler, on_error_handler,
                   on_buffered_amount_low, sctp_transport, data_channel,
                   detach_data_channels, dc>>
    /\ UNCHANGED <<open_call, loop_vars, app_vars, dials, loops, low_cb, low_connecting, th_before_open>>
    /\ UNCHANGED <<id_requests, last_reg, param_vars, dial_cfg>>

\* lines 239-242: f().await completes; check_detach_after_open only logs
\* (lines 191-197)
handle_open_callback_returns(t) ==
    /\ open_pc[t] = "callback"
    /\ open_pc' = [open_pc EXCEPT ![t] = "spawn"]
    /\ UNCHANGED <<chan_vars, open_call, loop_vars, app_vars, hist_vars>>
    /\ UNCHANGED <<id_requests, last_reg, param_vars, dial_cfg>>

\* faulty variant: the read loop is spawned in either mode
spawns_read_loop_always == TRUE

\* line 244: `if !self.setting_engine.detach.data_channels`
spawns_read_loop == ~detach_data_channels

\* lines 244-260 and 175-177: spawn the read loop in normal mode; open returns Ok
handle_open_spawn(t) ==
    /\ open_pc[t] = "spawn"
    /\ IF spawns_read_loop
       THEN /\ loop_pc' = "read"
            /\ loops' = loops + 1
       ELSE UNCHANGED <<loop_pc, loops>>
    /\ open_pc' = [open_pc EXCEPT ![t] = "idle"]
    /\ open_call' = [open_call EXCEPT ![t].result = "Ok"]
    /\ UNCHANGED <<chan_vars, loop_err, events, msgs_read, app_vars,
                   dials, open_cb, low_cb, low_connecting, th_before_open>>
    /\ UNCHANGED <<id_requests, last_reg, param_vars, dial_cfg>>

(* ----------------------------- read_loop() ---------------------------- *)
\* failures read_data_channel can return (line 279)
ReadErrors == {"ErrStreamClosed", "ErrOther"}

\* faulty variant: no failure is taken for the expected close
is_stream_closed_never(err) == FALSE

\* line 283: `sctp::error::Error::ErrStreamClosed.equal(&err)`
is_stream_closed(err) == err = "ErrStreamClosed"

\* lines 279-280: a read succeeds; the stream yields no data once closed locally
read_loop_read_ok ==
    /\ loop_pc = "read"
    /\ msgs_read < MaxMsgs
    /\ ~dc.closed
    /\ msgs_read' = msgs_read + 1
    /\ loop_pc' = "message"
    /\ UNCHANGED <<chan_vars, open_vars, loop_err, events, app_vars, hist_vars>>
    /\ UNCHANGED <<id_requests, last_reg, param_vars, dial_cfg>>

\* lines 281-283: a read fails; the state is stored before any callback
read_loop_read_err ==
    /\ loop_pc = "read"
    /\ \E err \in ReadErrors :
         /\ loop_err' = err
         /\ loop_pc' = IF is_stream_closed(err) THEN "close" ELSE "error"
    /\ ready_state' = "Closed"
    /\ UNCHANGED <<id, buffered_amount_low_threshold, detach_called,
                   on_message_handler, on_open_handler, on_close_handler,
                   on_error_handler, on_buffered_amount_low, sctp_transport,
                   data_channel, detach_data_channels, dc>>
    /\ UNCHANGED <<open_vars, events, msgs_read, app_vars, hist_vars>>
    /\ UNCHANGED <<id_requests, last_reg, param_vars, dial_cfg>>

\* lines 284-287: lock the on-error slot and call its occupant, if any
read_loop_deliver_error ==
    /\ loop_pc = "error"
    /\ events' = Append(events, <<"error", on_error_handler, 0>>)
    /\ loop_pc' = IF on_error_handler # NoHandler THEN "error_cb" ELSE "close"
    /\ UNCHANGED <<chan_vars, open_vars, loop_err, msgs_read, app_vars, hist_vars>>
    /\ UNCHANGED <<id_requests, last_reg, param_vars, dial_cfg>>

\* line 286: f(err).await completes, the slot's lock is released (line 288)
read_loop_error_returns ==
    /\ loop_pc = "error_cb"
    /\ loop_pc' = "close"
    /\ UNCHANGED <<chan_vars, open_vars, loop_err, events, msgs_read, app_vars, hist_vars>>
    /\ UNCHANGED <<id_requests, last_reg, param_vars, dial_cfg>>

\* lines 290-294: lock the on-close slot and call its occupant, if any
read_loop_deliver_close ==
    /\ loop_pc = "close"
    /\ events' = Append(events, <<"close", on_close_handler, 0>>)
    /\ loop_pc' = IF on_close_handler # NoHandler THEN "close_cb" ELSE "done"
    /\ UNCHANGED <<chan_vars, open_vars, loop_err, msgs_read, app_vars, hist_vars>>
    /\ UNCHANGED <<id_requests, last_reg, param_vars, dial_cfg>>

\* lines 293-297: f().await completes; `break` ends the loop
read_loop_close_returns ==
    /\ loop_pc = "close_cb"
    /\ loop_pc' = "done"
    /\ UNCHANGED <<chan_vars, open_vars, loop_err, events, msgs_read, app_vars, hist_vars>>
    /\ UNCHANGED <<id_requests, last_reg, param_vars, dial_cfg>>

\* lines 301-308: lock the on-message slot and call its occupant, if any
read_loop_deliver_message ==
    /\ loop_pc = "message"
    /\ events' = Append(events, <<"message", on_message_handler, msgs_read>>)
    /\ loop_pc' = IF on_message_handler # NoHandler THEN "message_cb" ELSE "read"
    /\ UNCHANGED <<chan_vars, open_vars, loop_err, msgs_read, app_vars, hist_vars>>
    /\ UNCHANGED <<id_requests, last_reg, param_vars, dial_cfg>>

\* faulty variant: the message is handed to the slot again after the callback
read_loop_message_redelivers ==
    /\ loop_pc = "message_cb"
    /\ loop_pc' = "message"
    /\ UNCHANGED <<chan_vars, open_vars, loop_err, events, msgs_read, app_vars, hist_vars>>
    /\ UNCHANGED <<id_requests, last_reg, param_vars, dial_cfg>>

\* lines 304-311: the callback completes and the loop reads again
read_loop_message_returns ==
    /\ loop_pc = "message_cb"
    /\ loop_pc' = "read"
    /\ UNCHANGED <<chan_vars, open_vars, loop_err, events, msgs_read, app_vars, hist_vars>>
    /\ UNCHANGED <<id_requests, last_reg, param_vars, dial_cfg>>

(* ----------------------- handler registration ------------------------- *)
\* faulty variant: a registration leaves an occupied slot as it is
store_handler_if_empty(old, f) == IF old = NoHandler THEN f ELSE old

\* lines 215, 226 and 266 (and 207): `*handler = Some(f)`
store_handler(old, f) == f

\* lines 213-216; the lock is held by the read loop while on-close runs
on_close ==
    /\ last_reg.close < MaxRegistrations
    /\ loop_pc # "close_cb"
    /\ on_close_handler' = store_handler(on_close_handler, last_reg.close + 1)
    /\ last_reg' = [last_reg EXCEPT !.close = @ + 1]
    /\ UNCHANGED <<id, ready_state, buffered_amount_low_threshold, detach_called,
                   on_message_handler, on_open_handler, on_error_handler,
                   on_buffered_amount_low, sctp_transport, data_channel,
                   detach_data_channels, dc>>
    /\ UNCHANGED <<open_vars, loop_vars, app_vars, hist_vars>>
    /\ UNCHANGED <<id_requests, param_vars, dial_cfg>>

\* lines 224-227
on_message ==
    /\ last_reg.message < MaxRegistrations
    /\ loop_pc # "message_cb"
    /\ on_message_handler' = store_handler(on_message_handler, last_reg.message + 1)
    /\ last_reg' = [last_reg EXCEPT !.message = @ + 1]
    /\ UNCHANGED <<id, ready_state, buffered_amount_low_threshold, detach_called,
                   on_open_handler, on_close_handler, on_error_handler,
                   on_buffered_amount_low, sctp_transport, data_channel,
                   detach_data_channels, dc>>
    /\ UNCHANGED <<open_vars, loop_vars, app_vars, hist_vars>>
    /\ UNCHANGED <<id_requests, param_vars, dial_cfg>>

\* lines 264-267
on_error ==
    /\ last_reg.error < MaxRegistrations
    /\ loop_pc # "error_cb"
    /\ on_error_handler' = store_handler(on_error_handler, last_reg.error + 1)
    /\ last_reg' = [last_reg EXCEPT !.error = @ + 1]
    /\ UNCHANGED <<id, ready_state, buffered_amount_low_threshold, detach_called,
                   on_message_handler, on_open_handler, on_close_handler,
                   on_buffered_amount_low, sctp_transport, data_channel,
                   detach_data_channels, dc>>
    /\ UNCHANGED <<open_vars, loop_vars, app_vars, hist_vars>>
    /\ UNCHANGED <<id_requests, param_vars, dial_cfg>>

\* faulty variant: the registration always stores the callback
sees_open_never(state) == FALSE

\* line 202: `if self.ready_state() == DataChannelState::Open`
sees_open(state) == state = "Open"

\* lines 201-205: on_open(f) reads the state; when Open it calls f at once
on_open_check ==
    /\ reg_pc = "idle"
    /\ \E f \in Callbacks :
         /\ open_cb[f].seen = "none"
         /\ \A g \in Callbacks : g < f => open_cb[g].seen # "none"
         /\ reg_f' = f
         /\ IF sees_open(ready_state)
            THEN /\ reg_pc' = "callback"
                 /\ open_cb' = [open_cb EXCEPT ![f].seen = ready_state,
                                               ![f].on_open_calls = @ + 1]
            ELSE /\ reg_pc' = "store"
                 /\ open_cb' = [open_cb EXCEPT ![f].seen = ready_state]
    /\ UNCHANGED <<chan_vars, open_vars, loop_vars, close_pc, send_pc, send_call,
                   set_pc, set_th, detach_call, th_call, dials, loops, low_cb,
                   low_connecting, th_before_open>>
    /\ UNCHANGED <<id_requests, last_reg, param_vars, dial_cfg>>

\* lines 203-204: f().await completes; check_detach_after_open only logs
on_open_callback_returns ==
    /\ reg_pc = "callback"
    /\ reg_pc' = "idle"
    /\ UNCHANGED <<chan_vars, open_vars, loop_vars, close_pc, send_pc, send_call,
                   reg_f, set_pc, set_th, detach_call, th_call, hist_vars>>
    /\ UNCHANGED <<id_requests, last_reg, param_vars, dial_cfg>>

\* lines 206-207: lock the slot and store f
on_open_store ==
    /\ reg_pc = "store"
    /\ ~on_open_locked
    /\ on_open_handler' = store_handler(on_open_handler, reg_f)
    /\ reg_pc' = "idle"
    /\ UNCHANGED <<id, ready_state, buffered_amount_low_threshold, detach_called,
                   on_message_handler, on_close_handler, on_error_handler,
                   on_buffered_amount_low, sctp_transport, data_channel,
                   detach_data_channels, dc>>
    /\ UNCHANGED <<open_vars, loop_vars, close_pc, send_pc, send_call, reg_f,
                   set_pc, set_th, detach_call, th_call, hist_vars>>
    /\ UNCHANGED <<id_requests, last_reg, param_vars, dial_cfg>>

\* lines 486-492: install f on the stream if there is one; nothing is stored
\* otherwise (line 487: the store is a TODO)
on_buffered_amount_low_register ==
    /\ low_cb < MaxCallbacks
    /\ low_cb' = low_cb + 1
    /\ low_connecting' = IF ready_state = "Connecting" THEN low_cb + 1 ELSE low_connecting
    /\ IF data_channel
       THEN dc' = [dc EXCEPT !.on_low = low_cb + 1]
       ELSE UNCHANGED dc
    /\ UNCHANGED <<id, ready_state, buffered_amount_low_threshold, detach_called,
                   on_message_handler, on_open_handler, on_close_handler,
                   on_error_handler, on_buffered_amount_low, sctp_transport,
                   data_channel, detach_data_channels>>
    /\ UNCHANGED <<open_vars, loop_vars, app_vars, dials, loops, open_cb, th_before_open>>
    /\ UNCHANGED <<id_requests, last_reg, param_vars, dial_cfg>>

(* ------------------------- send / send_text --------------------------- *)
\* faulty variant: only a Closed channel is rejected
ensure_open_unless_closed(state) == state # "Closed"

\* lines 338-344: Ok exactly when the state read is Open
ensure_open(state) == state = "Open"

\* lines 316 and 328: send(data) (text = FALSE) or send_text(s) (text = TRUE)
\* checks the state first; `?` returns ErrClosedPipe
send_check ==
    /\ send_pc = "idle"
    /\ \E text \in BOOLEAN, len \in 1..MaxLen :
         IF ensure_open(ready_state)
         THEN /\ send_call' = [seen |-> ready_state, in_on_open |-> on_open_locked,
                               text |-> text, len |-> len,
                               wrote |-> FALSE, at_write |-> "none", result |-> "pending",
                               n |-> 0]
              /\ send_pc' = "write"
         ELSE /\ send_call' = [seen |-> ready_state, in_on_open |-> on_open_locked,
                               text |-> text, len |-> len,
                               wrote |-> FALSE, at_write |-> "none",
                               result |-> "ErrClosedPipe", n |-> 0]
              /\ UNCHANGED send_pc
    /\ UNCHANGED <<chan_vars, open_vars, loop_vars, close_pc, reg_pc, reg_f,
                   set_pc, set_th, detach_call, th_call, hist_vars>>
    /\ UNCHANGED <<id_requests, last_reg, param_vars, dial_cfg>>

\* lines 318-323 and 330-335: lock the stream reference and write through;
\* the stream's own result (bytes accepted, or its error) is returned
send_write ==
    /\ send_pc = "write"
    /\ IF data_channel
       THEN \E accepted \in BOOLEAN :
               send_call' = [send_call EXCEPT
                                !.wrote = TRUE,
                                !.at_write = ready_state,
                                !.result = IF accepted THEN "Ok" ELSE "ErrWrite",
                                !.n = IF accepted THEN send_call.len ELSE 0]
       ELSE send_call' = [send_call EXCEPT !.result = "ErrClosedPipe"]
    /\ send_pc' = "idle"
    /\ UNCHANGED <<chan_vars, open_vars, loop_vars, close_pc, reg_pc, reg_f,
                   set_pc, set_th, detach_call, th_call, hist_vars>>
    /\ UNCHANGED <<id_requests, last_reg, param_vars, dial_cfg>>

(* ------------------------------ detach() ------------------------------ *)
\* faulty variant: the configuration is not consulted
detach_always_enabled == TRUE

\* line 355: `if !self.setting_engine.detach.data_channels`
detach_enabled == detach_data_channels

\* lines 354-367
detach ==
    /\ IF ~detach_enabled
       THEN /\ detach_call' = [seen |-> "unread", in_on_open |-> on_open_locked,
                            result |-> "ErrDetachNotEnabled"]
            /\ UNCHANGED detach_called
       ELSE IF data_channel
       THEN /\ detach_called' = TRUE
            /\ detach_call' = [seen |-> "stream", in_on_open |-> on_open_locked,
                            result |-> "Ok"]
       ELSE /\ detach_call' = [seen |-> "no stream", in_on_open |-> on_open_locked,
                            result |-> "ErrDetachBeforeOpened"]
            /\ UNCHANGED detach_called
    /\ UNCHANGED <<id, ready_state, buffered_amount_low_threshold,
                   on_message_handler, on_open_handler, on_close_handler,
                   on_error_handler, on_buffered_amount_low, sctp_transport,
                   data_channel, detach_data_channels, dc>>
    /\ UNCHANGED <<open_vars, loop_vars, close_pc, send_pc, send_call, reg_pc,
                   reg_f, set_pc, set_th, th_call, hist_vars>>
    /\ UNCHANGED <<id_requests, last_reg, param_vars, dial_cfg>>

(* ------------------------------- close() ------------------------------ *)
\* faulty variant: close() goes on whatever the state
already_closed_never(state) == FALSE

\* line 372: `if self.ready_state() == DataChannelState::Closed`
already_closed(state) == state = "Closed"

\* lines 372-374: return Ok at once if the state read is Closed
close_check ==
    /\ close_pc = "idle"
    /\ close_pc' = IF already_closed(ready_state) THEN "idle" ELSE "set_state"
    /\ UNCHANGED <<chan_vars, open_vars, loop_vars, send_pc, send_call, reg_pc,
                   reg_f, set_pc, set_th, detach_call, th_call, hist_vars>>
    /\ UNCHANGED <<id_requests, last_reg, param_vars, dial_cfg>>

\* line 376: set_ready_state(Closing), an unconditional store (lines 531-533)
close_set_state ==
    /\ close_pc = "set_state"
    /\ ready_state' = "Closing"
    /\ close_pc' = "stream"
    /\ UNCHANGED <<id, buffered_amount_low_threshold, detach_called,
                   on_message_handler, on_open_handler, on_close_handler,
                   on_error_handler, on_buffered_amount_low, sctp_transport,
                   data_channel, detach_data_channels, dc>>
    /\ UNCHANGED <<open_vars, loop_vars, send_pc, send_call, reg_pc, reg_f,
                   set_pc, set_th, detach_call, th_call, hist_vars>>
    /\ UNCHANGED <<id_requests, last_reg, param_vars, dial_cfg>>

\* lines 378-383: lock the stream reference and close the stream if there is one
close_stream ==
    /\ close_pc = "stream"
    /\ IF data_channel
       THEN dc' = [dc EXCEPT !.closed = TRUE]
       ELSE UNCHANGED dc
    /\ close_pc' = "idle"
    /\ UNCHANGED <<id, ready_state, buffered_amount_low_threshold, detach_called,
                   on_message_handler, on_open_handler, on_close_handler,
                   on_error_handler, on_buffered_amount_low, sctp_transport,
                   data_channel, detach_data_channels>>
    /\ UNCHANGED <<open_vars, loop_vars, send_pc, send_call, reg_pc, reg_f,
                   set_pc, set_th, detach_call, th_call, hist_vars>>
    /\ UNCHANGED <<id_requests, last_reg, param_vars, dial_cfg>>

(* ------------------ buffered-amount-low threshold --------------------- *)
\* lines 464-469: read from the stream if there is one, else from the cache
current_threshold ==
    IF data_channel THEN dc.threshold ELSE buffered_amount_low_threshold

\* lines 463-470
get_buffered_amount_low_threshold ==
    /\ th_call' = [from |-> IF data_channel THEN "stream" ELSE "cache",
                   result |-> current_threshold]
    /\ UNCHANGED <<chan_vars, open_vars, loop_vars, close_pc, send_pc, send_call,
                   reg_pc, reg_f, set_pc, set_th, detach_call, hist_vars>>
    /\ UNCHANGED <<id_requests, last_reg, param_vars, dial_cfg>>

\* lines 475-476: store the value in the cache
set_threshold_store ==
    /\ set_pc = "idle"
    /\ \E th \in 0..MaxThreshold :
         /\ buffered_amount_low_threshold' = th
         /\ set_th' = th
    /\ set_pc' = "push"
    /\ th_before_open' = IF sctp_transport
                         THEN [status |-> "racing", value |-> 0]
                         ELSE th_before_open
    /\ UNCHANGED <<id, ready_state, detach_called, on_message_handler,
                   on_open_handler, on_close_handler, on_error_handler,
                   on_buffered_amount_low, sctp_transport, data_channel,
                   detach_data_channels, dc>>
    /\ UNCHANGED <<open_vars, loop_vars, close_pc, send_pc, send_call, reg_pc,
                   reg_f, detach_call, th_call, dials, loops, open_cb, low_cb, low_connecting>>
    /\ UNCHANGED <<id_requests, last_reg, param_vars, dial_cfg>>

\* lines 477-480: lock the stream reference and push the value to the stream
set_threshold_push ==
    /\ set_pc = "push"
    /\ IF data_channel
       THEN dc' = [dc EXCEPT !.threshold = set_th]
       ELSE UNCHANGED dc
    /\ set_pc' = "idle"
    /\ UNCHANGED <<id, ready_state, buffered_amount_low_threshold, detach_called,
                   on_message_handler, on_open_handler, on_close_handler,
                   on_error_handler, on_buffered_amount_low, sctp_transport,
                   data_channel, detach_data_channels>>
    /\ UNCHANGED <<open_vars, loop_vars, close_pc, send_pc, send_call, reg_pc,
                   reg_f, set_th, detach_call, th_call, hist_vars>>
    /\ UNCHANGED <<id_requests, last_reg, param_vars, dial_cfg>>

(* --------------------------- specification ---------------------------- *)
\* open() up to and including handle_open, for the opening tasks in S
OpenStepsOf(S) ==
    \E t \in S :
       \/ open_begin(t)
       \/ open_generate_id(t)
       \/ open_dial(t)
       \/ open_apply_threshold(t)
       \/ open_apply_on_low(t)
       \/ handle_open_store(t)
       \/ handle_open_set_state(t)
       \/ handle_open_take(t)
       \/ handle_open_spawn(t)

\* any of the opening tasks
OpenSteps == OpenStepsOf(Openers)

\* a single opening task: open() is called by one task at a time
OneOpener == {"o1"}
OneOpenSteps == OpenStepsOf(OneOpener)

OpenCallbackSteps == \E t \in Openers : handle_open_callback_returns(t)

\* the read loop's reads and dispatches
LoopSteps ==
    \/ read_loop_read_ok
    \/ read_loop_read_err
    \/ read_loop_deliver_error
    \/ read_loop_deliver_close
    \/ read_loop_deliver_message

\* the returns of the callbacks the read loop awaits
LoopCallbackSteps ==
    \/ read_loop_error_returns
    \/ read_loop_close_returns
    \/ read_loop_message_returns

CloseSteps == close_check \/ close_set_state \/ close_stream

HandlerSteps == on_close \/ on_message \/ on_error

OnOpenSteps == on_open_check \/ on_open_callback_returns \/ on_open_store

SendSteps == send_check \/ send_write

ThresholdSteps ==
    \/ get_buffered_amount_low_threshold
    \/ set_threshold_store
    \/ set_threshold_push

\* every task of the program
Next ==
    \/ OpenSteps
    \/ OpenCallbackSteps
    \/ LoopSteps
    \/ LoopCallbackSteps
    \/ CloseSteps
    \/ HandlerSteps
    \/ OnOpenSteps
    \/ SendSteps
    \/ ThresholdSteps
    \/ on_buffered_amount_low_register
    \/ detach

Spec == Init /\ [][Next]_vars

(***************************************************************************)
(* The component specifications below let the application call only the    *)
(* operations that share state with the property at hand; the operations   *)
(* left out of one write no variable that its actions or formulas read.    *)
(***************************************************************************)
\* lifecycle: every writer of ready_state, and the read loop with its handlers
NextLifecycle ==
    OneOpenSteps \/ LoopSteps \/ LoopCallbackSteps \/ CloseSteps \/ HandlerSteps
SpecLifecycle == Init /\ [][NextLifecycle]_vars

\* the steps the runtime owes the tasks in flight: an open() or close() that
\* has been called runs on, a read on a closed stream fails, the read loop
\* dispatches what it holds, and the callbacks it awaits return
RunningOpen == OneOpenSteps /\ \E t \in OneOpener : open_pc[t] # "idle"
RunningClose == CloseSteps /\ close_pc # "idle"
ClosedStreamRead == read_loop_read_err /\ dc.closed
Dispatch ==
    \/ read_loop_deliver_error
    \/ read_loop_deliver_close
    \/ read_loop_deliver_message
    \/ LoopCallbackSteps

\* the lifecycle under weak fairness of the channel's tasks
SpecLifecycleFair ==
    /\ SpecLifecycle
    /\ WF_vars(RunningOpen)
    /\ WF_vars(RunningClose)
    /\ WF_vars(ClosedStreamRead)
    /\ WF_vars(Dispatch)

\* send / send_text against every writer of ready_state and data_channel
NextSend == OpenSteps \/ LoopSteps \/ CloseSteps \/ SendSteps
SpecSend == Init /\ [][NextSend]_vars

\* on_open registration against every writer of ready_state and of the slot
NextOnOpen ==
    OneOpenSteps \/ OpenCallbackSteps \/ LoopSteps \/ CloseSteps \/ OnOpenSteps
SpecOnOpen == Init /\ [][NextOnOpen]_vars

\* detach() against every writer of data_channel and ready_state
NextDetach == OpenSteps \/ LoopSteps \/ CloseSteps \/ detach
SpecDetach == Init /\ [][NextDetach]_vars

\* the two operating modes: detach() against the spawn decision and the read
\* loop with its handlers (close() only stops further successful reads)
NextModes ==
    OneOpenSteps \/ LoopSteps \/ LoopCallbackSteps \/ HandlerSteps \/ detach
SpecModes == Init /\ [][NextModes]_vars

\* the threshold and the low-watermark callback against open
NextThreshold == OpenSteps \/ ThresholdSteps \/ on_buffered_amount_low_register
SpecThreshold == Init /\ [][NextThreshold]_vars

\* the four handler slots: registrations against open() and the read loop
NextHandlers ==
    \/ OneOpenSteps
    \/ OpenCallbackSteps
    \/ LoopSteps
    \/ LoopCallbackSteps
    \/ HandlerSteps
    \/ OnOpenSteps
\* a channel in normal mode, constructed with its identifier: the mode in
\* which the read loop, and with it every handler slot, is in use
InitHandlers == Init /\ id # 0 /\ ~detach_data_channels
SpecHandlers == InitHandlers /\ [][NextHandlers]_vars

\* what an on-open callback may call: send and detach against open(), on_open
\* and close() (the read loop is spawned after the callback has returned)
NextOpenCallback ==
    \/ OneOpenSteps
    \/ OpenCallbackSteps
    \/ OnOpenSteps
    \/ CloseSteps
    \/ SendSteps
    \/ detach
SpecOpenCallback == Init /\ [][NextOpenCallback]_vars

\* open() for every combination of the reliability parameters
SpecReliability == InitReliability /\ [][OpenSteps]_vars

\* open() against close() and the read loop, no handler registered
NextOpenClose == OpenSteps \/ LoopSteps \/ CloseSteps
SpecOpenClose == Init /\ [][NextOpenClose]_vars

(* ============================ properties ============================== *)
Rank(state) ==
    CASE state = "Connecting" -> 0
      [] state = "Open"       -> 1
      [] state = "Closing"    -> 2
      [] state = "Closed"     -> 3

\* C1: ready_state only moves forward through Connecting -> Open -> Closing
\* -> Closed (a read failure may jump straight to Closed), and once Closed it
\* never changes again.
C1_LifecycleOnlyForward ==
    [][/\ Rank(ready_state') >= Rank(ready_state)
       /\ (ready_state = "Closed" => ready_state' = "Closed")]_vars

\* the kinds of the read loop's deliveries, in order
Kinds == [i \in 1..Len(events) |-> events[i][1]]
\* the deliveries made since the failed read
TerminalKinds == SelectSeq(Kinds, LAMBDA k : k # "message")
\* what the failure handling owes once it is over
TerminalOwed == IF loop_err = "ErrStreamClosed" THEN <<"close">> ELSE <<"error", "close">>

\* C2: after a failed read the loop delivers on-error exactly once iff the
\* failure is not "stream already closed", then on-close exactly once, in this
\* order, and nothing after that; no message follows a terminal delivery.
C2_TerminalSequence ==
    /\ loop_pc \in {"none", "read", "message", "message_cb", "error"}
          => TerminalKinds = <<>>
    /\ loop_pc = "error" => loop_err # "ErrStreamClosed"
    /\ loop_pc = "error_cb" => TerminalKinds = <<"error">>
    /\ loop_pc = "close" => Append(TerminalKinds, "close") = TerminalOwed
    /\ loop_pc \in {"close_cb", "done"} => TerminalKinds = TerminalOwed
    /\ \A i, j \in 1..Len(events) :
          (i < j /\ Kinds[i] # "message") => Kinds[j] # "message"
    /\ loops <= 1

\* C2 witness: a failure other than "stream already closed" was handled to
\* the end with both callbacks registered.
C2_Witness ==
    /\ loop_pc = "done"
    /\ loop_err = "ErrOther"
    /\ Len(events) >= 3
    /\ events[Len(events) - 1] = <<"error", 1, 0>>
    /\ events[Len(events)] = <<"close", 1, 0>>

\* C3: while the read loop's terminal on-error or on-close callback runs,
\* ready_state reads Closed.
C3_ClosedDuringTerminalCallbacks ==
    loop_pc \in {"error_cb", "close_cb"} => ready_state = "Closed"

\* the open() call of task t ran to the end of handle_open
Opened(t) == open_call[t] = [assoc |-> TRUE, was_set |-> FALSE, result |-> "Ok"]

\* the last open() call of task t found the transport reference set
FoundSet(t) == open_call[t].result # "none" /\ open_call[t].was_set

\* C4 as stated: open() returns success without side effects whenever the
\* transport reference is already set, so at most one dial is performed.
C4_OpenIdempotent ==
    /\ \A t \in Openers : FoundSet(t) => open_call[t].result = "Ok"
    /\ dials <= 1

\* C4 as amended: with the transport reference already set, open() changes
\* nothing and returns success if the session has an association and
\* ErrSCTPNotEstablished if it has none; at most one call gets past the guard,
\* at most one dial is made, and the references are never cleared.
C4_OpenIdempotentGivenAssociation ==
    /\ [](/\ \A t \in Openers :
               FoundSet(t) =>
                  /\ open_pc[t] = "idle"
                  /\ open_call[t].result =
                        IF open_call[t].assoc THEN "Ok" ELSE "ErrSCTPNotEstablished"
          /\ Cardinality({t \in Openers : open_pc[t] # "idle"}) <= 1
          /\ dials <= 1
          /\ data_channel => (dials = 1 /\ sctp_transport))
    /\ [][/\ \A t \in Openers :
               (/\ open_pc[t] = "idle"
                /\ open_pc'[t] = "idle"
                /\ open_call'[t] # open_call[t]
                /\ sctp_transport)
               => UNCHANGED <<chan_vars, dials, loops>>
          /\ sctp_transport => sctp_transport'
          /\ data_channel => data_channel']_vars

\* C4 witness: one task opened the channel and another one's open() then
\* returned Ok on the guard.
C4_Witness ==
    \E t, u \in Openers :
       /\ Opened(t)
       /\ open_call[u] = [assoc |-> TRUE, was_set |-> TRUE, result |-> "Ok"]
       /\ dials = 1
       /\ data_channel

\* C5: send / send_text called while the state is not Open fail with
\* ErrClosedPipe without writing; called while Open they write through, and an
\* accepted write returns the bytes accepted.
C5_SendRequiresOpen ==
    /\ send_call.seen \notin {"none", "Open"} =>
          /\ send_pc = "idle"
          /\ send_call.result = "ErrClosedPipe"
          /\ ~send_call.wrote
    /\ (send_call.seen = "Open" /\ send_pc = "idle") =>
          /\ send_call.wrote
          /\ send_call.result \in {"Ok", "ErrWrite"}
    /\ send_call.result = "Ok" => send_call.n = send_call.len
    /\ send_call.wrote => send_call.seen = "Open"

\* C5 witness: after open() and close(), a send found the state Closing and
\* was rejected.
C5_Witness ==
    /\ data_channel
    /\ close_pc = "idle"
    /\ send_call.seen = "Closing"
    /\ send_call.result = "ErrClosedPipe"

\* C6: an on-open callback registered when the state read is Open is called
\* by the registration itself, exactly once, and is never put in the slot.
C6_OnOpenFiresImmediately ==
    \A f \in Callbacks :
       open_cb[f].seen = "Open" =>
          /\ open_cb[f].on_open_calls = 1
          /\ open_cb[f].handle_open_calls = 0
          /\ on_open_handler # f
          /\ (reg_f = f => reg_pc \in {"callback", "idle"})

\* C6 witness: a registration on an Open channel has returned after calling
\* its callback.
C6_Witness ==
    \E f \in Callbacks :
       /\ open_cb[f].seen = "Open"
       /\ open_cb[f].on_open_calls = 1
       /\ reg_pc = "idle"
       /\ on_open_handler = NoHandler

\* C7: detach() fails with ErrDetachNotEnabled when detach mode is off and
\* leaves detach_called alone; with detach mode on it fails with
\* ErrDetachBeforeOpened while there is no stream reference and otherwise
\* succeeds and sets detach_called, which never reverts.
C7_Detach ==
    /\ [](/\ detach_call.result # "none" =>
               detach_call.result =
                  IF ~detach_data_channels THEN "ErrDetachNotEnabled"
                  ELSE IF detach_call.seen = "stream" THEN "Ok"
                  ELSE "ErrDetachBeforeOpened"
          /\ detach_call.result = "Ok" => (detach_called /\ data_channel)
          /\ ~detach_data_channels => ~detach_called
          /\ detach_called => detach_call.result = "Ok")
    /\ [][detach_called => detach_called']_vars

\* C7 witness: detach succeeded on a channel that was opened and then closed.
C7_Witness ==
    /\ detach_call.result = "Ok"
    /\ detach_called
    /\ ready_state = "Closing"

\* C8: a read loop is spawned at open-completion iff detach mode is off, and
\* detach() succeeds only if it is on: no state has both a read loop and a
\* successful detach, and in detach mode the read loop delivers nothing.
C8_ModesExclusive ==
    /\ loop_pc # "none" => ~detach_data_channels
    /\ detach_call.result = "Ok" => detach_data_channels
    /\ ~(loop_pc # "none" /\ detach_called)
    /\ detach_data_channels => (events = <<>> /\ loops = 0)
    /\ \A t \in Openers :
          Opened(t) => loops = IF detach_data_channels THEN 0 ELSE 1

\* C8 witness: a detached channel with its handlers registered and no loop.
C8_Witness ==
    /\ \E t \in Openers : Opened(t)
    /\ detach_called
    /\ loop_pc = "none"
    /\ on_message_handler # NoHandler
    /\ on_close_handler # NoHandler
    /\ on_error_handler # NoHandler

\* the threshold was replayed onto the dialed stream
Applied ==
    \/ data_channel
    \/ \E t \in Openers :
          open_pc[t] \in {"apply_on_low", "store", "set_state", "take", "callback", "spawn"}

\* C9: a threshold set before open() starts (set_th; 0 with no call) is what
\* open() puts on the new stream, and what buffered_amount_low_threshold()
\* returns before the open (from the cache) and after it (from the stream).
C9_ThresholdReplayed ==
    /\ (~sctp_transport /\ set_pc = "idle") => current_threshold = set_th
    /\ th_before_open.status = "settled" =>
          /\ th_before_open.value = set_th
          /\ current_threshold = set_th
          /\ Applied => dc.threshold = set_th
          /\ th_call.from = "stream" => th_call.result = set_th

\* C9 witness: a nonzero threshold set before the open is read back from the
\* stream after it.
C9_Witness ==
    /\ th_before_open = [status |-> "settled", value |-> 1]
    /\ \E t \in Openers : Opened(t)
    /\ th_call = [from |-> "stream", result |-> 1]

\* C10: a low-watermark callback registered while the channel is Connecting
\* is retained in the channel until it is installed, and is on the stream (it,
\* or one registered later) once open() has completed.
C10_LowCallbackReplayed ==
    low_connecting # NoHandler =>
       /\ \/ on_buffered_amount_low >= low_connecting
          \/ (dials > 0 /\ dc.on_low >= low_connecting)
       /\ (\E t \in Openers : Opened(t)) => dc.on_low >= low_connecting


\* a dial has been attempted, so a Config has been built
Dialled == dial_cfg.channel_type # "none"

\* C11: the reliability mapping is total over (ordered, max_packet_lifetime,
\* max_retransmits): both caps zero give Reliable(Unordered) with parameter 0;
\* otherwise a nonzero max_retransmits gives PartialReliableRexmit(Unordered)
\* with parameter max_retransmits, also when both caps are nonzero; otherwise
\* PartialReliableTimed(Unordered) with parameter max_packet_lifetime; ordered
\* alone selects the ordered or Unordered variant.
C11_ReliabilityMapping ==
    Dialled =>
       /\ dial_cfg.channel_type \in
             IF ordered
             THEN {"Reliable", "PartialReliableRexmit", "PartialReliableTimed"}
             ELSE {"ReliableUnordered", "PartialReliableRexmitUnordered",
                   "PartialReliableTimedUnordered"}
       /\ (dial_cfg.channel_type \in {"Reliable", "ReliableUnordered"}) <=>
             (max_packet_lifetime = 0 /\ max_retransmits = 0)
       /\ (dial_cfg.channel_type \in
              {"PartialReliableRexmit", "PartialReliableRexmitUnordered"}) <=>
             (max_retransmits # 0)
       /\ (dial_cfg.channel_type \in
              {"PartialReliableTimed", "PartialReliableTimedUnordered"}) <=>
             (max_retransmits = 0 /\ max_packet_lifetime # 0)
       /\ dial_cfg.reliability_parameter =
             CASE max_retransmits # 0 -> max_retransmits
               [] max_retransmits = 0 /\ max_packet_lifetime # 0 -> max_packet_lifetime
               [] OTHER -> 0

\* C11 witness: an unordered channel with both caps nonzero and different was
\* dialled as retransmit-limited.
C11_Witness ==
    /\ ~ordered
    /\ max_retransmits # 0
    /\ max_packet_lifetime # 0
    /\ max_retransmits # max_packet_lifetime
    /\ dial_cfg = [channel_type |-> "PartialReliableRexmitUnordered",
                   reliability_parameter |-> max_retransmits]
    /\ dials = 1


\* the last open() call of task t was made on a session without association
NoAssociation(t) == open_call[t].result # "none" /\ ~open_call[t].assoc

\* C12: open() on a session with no active association fails with
\* ErrSCTPNotEstablished and changes nothing (transport reference, identifier,
\* state, stream, dials, read loops all as before; the call is over at once);
\* while the transport reference is unset an open() with an association still
\* gets past the guard.
C12_OpenWithoutAssociation ==
    /\ [](/\ \A t \in Openers :
               NoAssociation(t) =>
                  /\ open_call[t].result = "ErrSCTPNotEstablished"
                  /\ open_pc[t] = "idle"
          /\ \A t \in Openers :
               (open_pc[t] = "idle" /\ ~sctp_transport) =>
                  ENABLED (open_begin(t) /\ open_pc'[t] = "generate_id"))
    /\ [][\A t \in Openers :
             (open_call'[t] # open_call[t] /\ ~open_call'[t].assoc) =>
                UNCHANGED <<chan_vars, open_pc, dials, loops, id_requests, dial_cfg>>]_vars

\* C12 witness: one task's open() failed for want of an association while the
\* transport reference was unset, and another task's later open() opened the
\* channel.
C12_Witness ==
    \E t, u \in Openers :
       /\ open_call[u] = [assoc |-> FALSE, was_set |-> FALSE,
                          result |-> "ErrSCTPNotEstablished"]
       /\ Opened(t)
       /\ ready_state = "Open"
       /\ dials = 1


\* C13: the identifier is written at most once and only from 0 to a nonzero
\* value: every write goes with a request to the session made while the
\* identifier is 0, a request is only made while it is 0 (so never for a
\* channel constructed with a nonzero identifier), at most one request is made
\* over the channel's life, and a nonzero identifier never changes.
C13_IdentifierWrittenOnce ==
    /\ [](id_requests <= 1 /\ (id \notin {0, GeneratedId} => id_requests = 0))
    /\ [][/\ id' # id => (id = 0 /\ id' # 0 /\ id_requests' = id_requests + 1)
          /\ id_requests' # id_requests => id = 0
          /\ id # 0 => id' = id]_vars

\* C13 witness: a channel constructed with identifier 0 was opened with the
\* identifier the session generated, and then closed by a failed read.
C13_Witness ==
    /\ \E t \in Openers : Opened(t)
    /\ id = GeneratedId
    /\ id_requests = 1
    /\ ready_state = "Closed"


\* close() gets past its test of the state
close_proceeds == close_check /\ close_pc' = "set_state"

\* C14: close() called while the state is Closed returns with no effect;
\* called in any other state it stores Closing and then closes the stream if
\* there is one, touching nothing else; no step of close() stores Closed.
C14_CloseEffect ==
    /\ [](close_pc = "idle" =>
             IF ready_state = "Closed"
             THEN ~ENABLED close_proceeds
             ELSE ENABLED close_proceeds)
    /\ [][/\ (close_pc = "idle" /\ close_pc' # "idle") =>
                /\ close_pc' = "set_state"
                /\ ready_state # "Closed"
                /\ UNCHANGED <<chan_vars, dials, loops>>
          /\ (close_pc = "set_state" /\ close_pc' # "set_state") =>
                /\ close_pc' = "stream"
                /\ ready_state' = "Closing"
                /\ UNCHANGED <<id, sctp_transport, data_channel, dc, dials, loops>>
          /\ (close_pc = "stream" /\ close_pc' # "stream") =>
                /\ close_pc' = "idle"
                /\ dc' = [dc EXCEPT !.closed = @ \/ data_channel]
                /\ UNCHANGED <<id, ready_state, sctp_transport, data_channel,
                               dials, loops>>
          /\ (close_pc' # close_pc /\ ready_state' = "Closed") =>
                ready_state = "Closed"]_vars

\* C14 witness: close() on an Open channel has returned: the state is Closing
\* and the stream is closed.
C14_Witness ==
    /\ close_pc = "idle"
    /\ ready_state = "Closing"
    /\ data_channel
    /\ dc.closed
    /\ \E t \in Openers : Opened(t)


\* on_open(f) was the only registration made, it read Connecting, and it has
\* returned
RacedRegistration(f) ==
    /\ open_cb[f].seen = "Connecting"
    /\ \A g \in Callbacks \ {f} : open_cb[g].seen = "none"
    /\ reg_pc = "idle"

\* C15: an on_open(f) racing the open transition is never lost: once open()
\* has completed, the channel is Open and the registration has returned, f has
\* been called exactly once (by handle_open or by the registration) and the
\* slot holds no callback.
C15_OnOpenRegistrationNeverLost ==
    \A f \in Callbacks :
       (/\ RacedRegistration(f)
        /\ \E t \in Openers : Opened(t)
        /\ ready_state = "Open") =>
          /\ open_cb[f].on_open_calls + open_cb[f].handle_open_calls = 1
          /\ on_open_handler = NoHandler


\* C16: a threshold set while open() is in flight is not dropped: once open()
\* and set_buffered_amount_low_threshold have both returned, the stream's
\* threshold is the last value set and buffered_amount_low_threshold() returns
\* it.
C16_ThresholdSetDuringOpen ==
    (/\ th_before_open.status = "racing"
     /\ set_pc = "idle"
     /\ \E t \in Openers : Opened(t)) =>
       /\ dc.threshold = set_th
       /\ current_threshold = set_th


\* the read loop's dispatches of messages, in order
MessageEvents == SelectSeq(events, LAMBDA e : e[1] = "message")

\* C17: the read loop hands the messages to the on-message slot in the order
\* they were read, each read once (the i-th dispatch is that of the i-th read;
\* a dispatch to an empty slot drops the message), and a read is only issued
\* when every earlier read has been dispatched and its callback has returned,
\* so at most one read is undelivered and one callback in flight.
C17_MessagesInOrder ==
    /\ [](/\ \A i \in 1..Len(MessageEvents) : MessageEvents[i][3] = i
          /\ Len(MessageEvents) =
                IF loop_pc = "message" THEN msgs_read - 1 ELSE msgs_read
          /\ loop_pc = "message_cb" =>
                /\ events[Len(events)][1] = "message"
                /\ events[Len(events)][2] # NoHandler
          /\ loops <= 1)
    /\ [][msgs_read' # msgs_read =>
             /\ loop_pc = "read"
             /\ msgs_read' = msgs_read + 1
             /\ Len(MessageEvents) = msgs_read
             /\ events' = events]_vars

\* C17 witness: the first message read was dropped on the empty slot, the
\* second one was delivered to the callback registered in between, and the
\* loop is back at its read.
C17_Witness ==
    /\ MessageEvents = <<<<"message", NoHandler, 1>>, <<"message", 1, 2>>>>
    /\ msgs_read = 2
    /\ loop_pc = "read"


\* the slot a read-loop dispatch of this kind reads
Slot(kind) ==
    CASE kind = "close"   -> on_close_handler
      [] kind = "message" -> on_message_handler
      [] kind = "error"   -> on_error_handler

\* a callback of the on-open slot is running (called by handle_open or by the
\* registration itself)
OnOpenRunning == on_open_locked \/ reg_pc = "callback"

C20_WriteOnlyWhileOpen ==
    send_call.wrote => send_call.at_write = "Open"


\* close() has read the state of an opened channel as Open and goes on
CloseCalledOnOpen == close_pc = "set_state" /\ ready_state = "Open" /\ data_channel

\* the read loop has dispatched on-close
CloseDelivered == \E i \in 1..Len(events) : events[i][1] = "close"

\* C19: after close() is called on an Open channel, in normal mode or in
\* detach mode, the state eventually becomes Closed and on-close is
\* eventually dispatched, under weak fairness of the channel's tasks with
\* every read on the closed stream failing.
C19_CloseCompletes ==
    /\ CloseCalledOnOpen ~> (ready_state = "Closed")
    /\ CloseCalledOnOpen ~> CloseDelivered


\* close() has stored Closing: it is about to close the stream or has closed it
CloseStored == close_pc = "stream" \/ dc.closed

\* C21 as stated: whenever handle_open calls the on-open callback the stream
\* reference is stored and the state is Open, so a detach() (in detach mode)
\* or a send() made from inside the callback does not fail with
\* ErrDetachBeforeOpened / ErrClosedPipe.
C21_OnOpenCallbackContext ==
    /\ [][\A t \in Openers :
             (open_pc[t] = "take" /\ open_pc'[t] = "callback") =>
                (data_channel /\ ready_state = "Open")]_vars
    /\ []((detach_call.in_on_open /\ detach_data_channels) =>
             detach_call.result = "Ok")
    /\ [](send_call.in_on_open => send_call.result # "ErrClosedPipe")

\* C21 as amended: while handle_open's on-open callback runs the stream
\* reference is stored, no call on the channel is blocked, and the state is
\* Open unless a concurrent close() has stored Closing; a detach() made from
\* inside the callback succeeds in detach mode (ErrDetachNotEnabled otherwise);
\* a send() made from inside it reads Open and writes, or reads the Closing a
\* concurrent close() stored and fails with ErrClosedPipe.
C21_OnOpenCallbackContextUnlessClosing ==
    /\ \A t \in Openers :
          open_pc[t] = "callback" =>
             /\ data_channel
             /\ ready_state \in {"Open", "Closing"}
             /\ ready_state = "Closing" => CloseStored
             /\ ENABLED detach
             /\ send_pc = "idle" => ENABLED send_check
             /\ send_pc = "write" => ENABLED send_write
    /\ detach_call.in_on_open =>
          detach_call.result =
             IF detach_data_channels THEN "Ok" ELSE "ErrDetachNotEnabled"
    /\ send_call.in_on_open =>
          /\ send_call.seen \in {"Open", "Closing"}
          /\ send_call.seen = "Open" => (send_pc = "write" \/ send_call.wrote)
          /\ send_call.seen = "Closing" =>
                (CloseStored /\ send_call.result = "ErrClosedPipe")

\* C21 witness: inside the on-open callback called by handle_open, a send was
\* accepted by the stream and a detach succeeded, and the callback still runs.
C21_Witness ==
    /\ \E t \in Openers : open_pc[t] = "callback"
    /\ send_call.in_on_open
    /\ send_call.wrote
    /\ send_call.result = "Ok"
    /\ detach_call = [seen |-> "stream", in_on_open |-> TRUE, result |-> "Ok"]


\* an open() got past the guard and failed: the transport reference is set,
\* no open() is in flight and there is no stream reference
OpenFailed ==
    /\ sctp_transport
    /\ ~data_channel
    /\ \A t \in Openers : open_pc[t] = "idle"

\* C22 as stated: once open() has failed after storing the transport
\* reference, the reference stays set, the stream reference stays unset, the
\* state is not moved by open(), and every later open() returns success
\* without dialing, so that the channel never reaches Open.
C22_FailedOpenIsFinal ==
    /\ [](OpenFailed =>
             /\ ready_state # "Open"
             /\ dials = 0
             /\ \A t \in Openers : FoundSet(t) => open_call[t].result = "Ok")
    /\ [][OpenFailed => (OpenFailed' /\ UNCHANGED <<id, dials, loops, dial_cfg>>)]_vars

\* C22 as amended: as stated, except that a later open() returns success only
\* if its session has an association and ErrSCTPNotEstablished if it has
\* none; and the state leaves Connecting only through close() storing Closing.
C22_FailedOpenIsFinalGivenAssociation ==
    /\ [](OpenFailed =>
             /\ ready_state \in {"Connecting", "Closing"}
             /\ dials = 0
             /\ loops = 0
             /\ \A t \in Openers :
                   FoundSet(t) =>
                      open_call[t].result =
                         IF open_call[t].assoc THEN "Ok" ELSE "ErrSCTPNotEstablished")
    /\ [][OpenFailed =>
             /\ OpenFailed'
             /\ UNCHANGED <<id, dials, loops, dial_cfg>>
             /\ ready_state' # ready_state =>
                   (close_pc = "set_state" /\ ready_state' = "Closing")]_vars

\* C22 witness: one task's open() failed at the dial, another task's later
\* open() returned Ok on the guard, and the channel is still Connecting with
\* no stream.
C22_Witness ==
    \E t, u \in Openers :
       /\ open_call[u] = [assoc |-> TRUE, was_set |-> FALSE, result |-> "ErrDial"]
       /\ open_call[t] = [assoc |-> TRUE, was_set |-> TRUE, result |-> "Ok"]
       /\ OpenFailed
       /\ Dialled
       /\ ready_state = "Connecting"

====
